---- MODULE Spec2Model ----
(***************************************************************************)
(* Model of src/src/FinancialAIAgent.js: the backend gateway               *)
(* (callBackendApi), the dashboard load (App) and the chat / speech        *)
(* wiring (ChatInterface).                                                 *)
(*                                                                         *)
(* Strings are sequences of atomic text fragments, so that concatenation   *)
(* (template literals), String.prototype.includes and trim are computed    *)
(* and not assumed.  A JavaScript value is a tagged record: Undef for      *)
(* undefined / a missing property, Str(s) for a string.  A thrown object   *)
(* is a record whose DOMAIN is the set of properties the object has.       *)
(***************************************************************************)
EXTENDS Naturals, Sequences, FiniteSets, TLC

VARIABLES
    \* --- gateway harness (callBackendApi as a pure function) ---
    gwNet,          \* what fetch() produced: a response or a transport failure
    gwOut,          \* <<>> before the call, <<outcome>> once callBackendApi settled
    \* --- formatting harness (formatCurrency as a pure function) ---
    fmtValue,       \* the argument of formatCurrency
    fmtOut,         \* <<>> before the call, <<outcome>> once formatCurrency returned or threw
    \* --- browser ---
    location,       \* window.location.href: "app" or the login URL redirected to
    mcpRedirecting, \* localStorage 'mcpRedirecting' present with value 'true'
    speechSupported,\* 'webkitSpeechRecognition' in window
    \* --- App component state ---
    mounted,        \* the mount effect of this page load has run
    userId,         \* null (FALSE) or generated (TRUE)
    loadingFinancials,
    financialData,  \* <<>> (null) or <<body>>
    error,          \* <<>> (null) or <<text>>
    dashReq,        \* "none" | "inflight" | "settled": the /getFinancialSummary request
    \* --- ChatInterface component state ---
    messages,       \* sequence of [sender, text]
    input,          \* the input field, a text
    isSending,
    isListening,
    recognitionRef, \* 0 (null) or the index in captures of recognitionRef.current
    captures,       \* every SpeechRecognition object created, with its closures
    inflight,       \* /chat requests issued and not yet settled, in issue order
    nChatReqs,      \* number of /chat requests issued since the page load
    \* --- history ---
    userActed       \* the user has asked for a request (load, send, microphone)
                    \* since the last request that failed

gwVars   == <<gwNet, gwOut>>
fmtVars  == <<fmtValue, fmtOut>>
harnessVars == <<gwNet, gwOut, fmtValue, fmtOut>>
pageVars == <<location, mcpRedirecting, speechSupported, mounted, userId,
              loadingFinancials, financialData, error, dashReq>>
chatVars == <<messages, input, isSending, isListening, recognitionRef,
              captures, inflight, nChatReqs>>
vars     == <<gwNet, gwOut, fmtValue, fmtOut, location, mcpRedirecting, speechSupported, mounted,
              userId, loadingFinancials, financialData, error, dashReq,
              messages, input, isSending, isListening, recognitionRef,
              captures, inflight, nChatReqs, userActed>>

-----------------------------------------------------------------------------
(* JavaScript values and strings *)

Undef == [t |-> "undefined"]
Str(s) == [t |-> "string", s |-> s]

\* JavaScript truthiness of undefined and of strings
Truthy(v) == v.t = "string" /\ v.s # <<>>

\* property read: a missing property reads as undefined
Prop(obj, p) == IF p \in DOMAIN obj THEN obj[p] ELSE Undef

\* String.prototype.includes: needle occurs as a contiguous part of text
Includes(text, needle) ==
    \E i \in 0..Len(text) :
        /\ i + Len(needle) <= Len(text)
        /\ SubSeq(text, i + 1, i + Len(needle)) = needle

IsSpace(tok) == tok \in {" ", "\t"}

RECURSIVE TrimStart(_)
TrimStart(text) ==
    IF text # <<>> /\ IsSpace(Head(text)) THEN TrimStart(Tail(text)) ELSE text

RECURSIVE TrimEnd(_)
TrimEnd(text) ==
    IF text # <<>> /\ IsSpace(text[Len(text)])
    THEN TrimEnd(SubSeq(text, 1, Len(text) - 1))
    ELSE text

\* String.prototype.trim
Trim(text) == TrimEnd(TrimStart(text))

-----------------------------------------------------------------------------
(* callBackendApi *)

AuthRequiredText == <<"Authentication required">>
InvalidSessionText == <<"Invalid session ID">>
BodyAlreadyRead == <<"body stream already read">>
NotJsonText == <<"Unexpected token in JSON">>
NullPropertyText == <<"Cannot read properties of null">>

Returned(v) == [ok |-> TRUE, value |-> v]
Thrown(e) == [ok |-> FALSE, error |-> e]

\* the objects callBackendApi throws
LoginRequired(url) == [type |-> Str(<<"login_required">>), login_url |-> url]
InvalidSession(msg) == [type |-> Str(<<"invalid_session">>), message |-> msg]
JsError(name, msg) == [name |-> Str(<<name>>), message |-> Str(msg)]

\* the fallback message of line 83
HttpFallback(status) == <<"HTTP error! status: ", ToString(status)>>

\* response.ok
ResponseOk(resp) == resp.status >= 200 /\ resp.status <= 299

\* response.json(): the body stream can be consumed once
ResponseJson(resp, bodyUsed) ==
    IF bodyUsed THEN Thrown(JsError("TypeError", BodyAlreadyRead))
    ELSE IF resp.body.json = "unparseable"
         THEN Thrown(JsError("SyntaxError", NotJsonText))
         ELSE Returned(resp.body)

\* errorData.error / errorData.login_url: a property read of null throws
ReadProp(json, p) ==
    IF json.json = "null" THEN Thrown(JsError("TypeError", NullPropertyText))
    ELSE Returned(Prop(json, p))

\* Check401 without the login_required case
Check401_NoLoginCase(resp) ==
    [thrown |-> FALSE, error |-> Undef, bodyUsed |-> FALSE]

\* lines 69-75: [thrown, error, bodyUsed]
Check401(resp) ==
    IF resp.status = 401
    THEN LET r == ResponseJson(resp, FALSE) IN
         IF ~r.ok THEN [thrown |-> TRUE, error |-> r.error, bodyUsed |-> TRUE]
         ELSE LET e == ReadProp(r.value, "error") IN
              IF ~e.ok THEN [thrown |-> TRUE, error |-> e.error, bodyUsed |-> TRUE]
              ELSE IF e.value = Str(AuthRequiredText)
                      /\ Truthy(Prop(r.value, "login_url"))
                   THEN [thrown |-> TRUE,
                         error |-> LoginRequired(Prop(r.value, "login_url")),
                         bodyUsed |-> TRUE]
                   ELSE [thrown |-> FALSE, error |-> Undef, bodyUsed |-> TRUE]
    ELSE [thrown |-> FALSE, error |-> Undef, bodyUsed |-> FALSE]

\* CheckOk deciding failure by the body's error property and not by response.ok
CheckOk_ByErrorProperty(resp, bodyUsed) ==
    LET r == ResponseJson(resp, bodyUsed) IN
    IF r.ok /\ r.value.json = "object" /\ Truthy(Prop(r.value, "error"))
    THEN [thrown |-> TRUE, error |-> JsError("Error", r.value.error.s)]
    ELSE [thrown |-> FALSE, error |-> Undef]

\* lines 77-84, reached when lines 69-75 threw nothing
CheckOk(resp, bodyUsed) ==
    IF ~ResponseOk(resp)
    THEN LET r == ResponseJson(resp, bodyUsed) IN
         IF ~r.ok THEN [thrown |-> TRUE, error |-> r.error]
         ELSE LET e == ReadProp(r.value, "error") IN
              IF ~e.ok THEN [thrown |-> TRUE, error |-> e.error]
              ELSE IF Truthy(e.value) /\ Includes(e.value.s, InvalidSessionText)
                   THEN [thrown |-> TRUE, error |-> InvalidSession(e.value)]
                   ELSE [thrown |-> TRUE,
                         error |-> JsError("Error",
                                     IF Truthy(e.value) THEN e.value.s
                                     ELSE HttpFallback(resp.status))]
    ELSE [thrown |-> FALSE, error |-> Undef]

\* line 86
ReturnJson(resp, bodyUsed) == ResponseJson(resp, bodyUsed)

\* callBackendApi with a catch that throws a new error in place of the one caught
callBackendApi_CatchWraps(net) ==
    IF net.kind = "transport"
    THEN Thrown(JsError("Error", <<"Network error">>))
    ELSE LET a == Check401(net) IN
         IF a.thrown THEN Thrown(a.error)
         ELSE LET b == CheckOk(net, a.bodyUsed) IN
              IF b.thrown THEN Thrown(b.error)
              ELSE ReturnJson(net, a.bodyUsed)

\* lines 57-91; the catch of lines 87-90 re-throws what it caught
callBackendApi(net) ==
    IF net.kind = "transport"
    THEN Thrown(JsError("TypeError", net.message))
    ELSE LET a == Check401(net) IN
         IF a.thrown THEN Thrown(a.error)
         ELSE LET b == CheckOk(net, a.bodyUsed) IN
              IF b.thrown THEN Thrown(b.error)
              ELSE ReturnJson(net, a.bodyUsed)

-----------------------------------------------------------------------------
(* formatCurrency *)

\* In this section a string is a sequence of characters.

JsNull == [t |-> "null"]
Num(n) == [t |-> "number", n |-> n]
NaN == [t |-> "number", nan |-> TRUE]

Digits == {"0", "1", "2", "3", "4", "5", "6", "7", "8", "9"}
DigitValue(ch) == CHOOSE d \in 0..9 : ToString(d) = ch

\* the value of the longest prefix of digits, continuing from acc; seen tells
\* whether a digit was read
RECURSIVE ParseDigits(_, _, _)
ParseDigits(chars, acc, seen) ==
    IF chars # <<>> /\ Head(chars) \in Digits
    THEN ParseDigits(Tail(chars), acc * 10 + DigitValue(Head(chars)), TRUE)
    ELSE [seen |-> seen, n |-> acc]

\* parseInt(v, 10): ToString(v), leading white space skipped, an optional sign,
\* then the longest prefix of digits; NaN when there is no digit
ParseInt(v) ==
    IF v.t # "string" THEN NaN
    ELSE LET body == TrimStart(v.s)
             neg  == body # <<>> /\ Head(body) = "-"
             rest == IF body # <<>> /\ Head(body) \in {"-", "+"} THEN Tail(body) ELSE body
             d    == ParseDigits(rest, 0, FALSE)
         IN  IF ~d.seen THEN NaN
             ELSE IF neg THEN [t |-> "number", neg |-> TRUE, n |-> d.n] ELSE Num(d.n)

NanosPerUnit == 1000000000
NanosPerCent == NanosPerUnit \div 100

\* units + nanos / 1e9 in hundredths, rounded to the nearest hundredth, ties
\* away from zero (maximumFractionDigits: 2)
RoundedHundredths(units, nanos) ==
    LET whole == units * 100 + (nanos \div NanosPerCent)
        rest  == nanos % NanosPerCent
    IN  IF whole >= 0
        THEN whole + (IF 2 * rest >= NanosPerCent THEN 1 ELSE 0)
        ELSE whole + (IF 2 * rest > NanosPerCent THEN 1 ELSE 0)

\* the fraction digits shown: none, one or two (minimumFractionDigits: 0)
FractionText(cents) ==
    IF cents = 0 THEN <<>>
    ELSE IF cents % 10 = 0 THEN <<".", ToString(cents \div 10)>>
    ELSE <<".", ToString(cents \div 10), ToString(cents % 10)>>

\* Intl.NumberFormat('en-IN', {style: 'currency', ...}).format of a number below
\* 1000 in magnitude (no digit grouping), the currency written as its code
FormatNumber(code, hundredths) ==
    LET mag == IF hundredths < 0 THEN 0 - hundredths ELSE hundredths IN
    (IF hundredths < 0 THEN <<"-">> ELSE <<>>)
    \o code \o <<ToString(mag \div 100)>> \o FractionText(mag % 100)

\* a currency code Intl.NumberFormat accepts: three letters
Letters == {"I", "N", "R", "U", "S", "D"}
WellFormedCurrency(code) == Len(code) = 3 /\ \A i \in 1..3 : code[i] \in Letters

DefaultCurrency == <<"I", "N", "R">>
NotAvailable == <<"N/A">>

\* lines 16-27
formatCurrency(value) ==
    IF value.t # "object" \/ Prop(value, "units") = Undef
    THEN Returned(Str(NotAvailable))
    ELSE LET units == ParseInt(value.units)
             nanos == IF Prop(value, "nanos").t = "number" /\ value.nanos # Num(0)
                      THEN value.nanos.n ELSE 0
             code  == IF Truthy(Prop(value, "currencyCode")) THEN value.currencyCode.s
                      ELSE DefaultCurrency
         IN  IF ~WellFormedCurrency(code)
             THEN Thrown(JsError("RangeError", <<"Invalid currency code : ">> \o code))
             ELSE IF units = NaN THEN Returned(Str(code \o <<"NaN">>))
             ELSE Returned(Str(FormatNumber(code,
                      RoundedHundredths(IF "neg" \in DOMAIN units THEN 0 - units.n
                                        ELSE units.n, nanos))))

\* the amounts formatCurrency is applied to
UnitsValues == {Undef, JsNull, Str(<<>>), Str(<<"0">>), Str(<<"1", "0", "0">>),
                Str(<<"-", "5">>), Str(<<" ", "7">>), Str(<<"a", "b", "c">>),
                Str(<<"1", "2", "x">>)}
NanosValues == {Undef, Num(0), Num(500000000), Num(995000000), Num(4000000)}
CurrencyCodes == {Undef, Str(<<"I", "N", "R">>), Str(<<"U", "S", "D">>), Str(<<"R", "s">>)}

\* an object keeps only the properties it was given
Amount(u, n, c) ==
    LET full == [units |-> u, nanos |-> n, currencyCode |-> c]
        keys == {"t"} \cup {k \in DOMAIN full : full[k] # Undef}
    IN  [k \in keys |-> IF k = "t" THEN "object" ELSE full[k]]

Amounts ==
    {Amount(u, n, c) : u \in UnitsValues, n \in NanosValues, c \in CurrencyCodes}
    \cup {Undef, JsNull}

FmtIdle == Undef

FmtInit ==
    /\ fmtValue \in Amounts
    /\ fmtOut = <<>>

FmtCall ==
    /\ fmtOut = <<>>
    /\ fmtOut' = <<formatCurrency(fmtValue)>>
    /\ UNCHANGED fmtValue

-----------------------------------------------------------------------------
(* What the network can produce *)

Statuses == {200, 201, 400, 401, 500}

LoginUrl == <<"https://fi.money/login?s=1">>
TransportMessage == <<"Failed to fetch">>
TransportMessages == {TransportMessage, <<"NetworkError when attempting to fetch resource.">>}

ErrorTexts == {Undef, Str(<<>>), Str(AuthRequiredText), Str(InvalidSessionText),
               Str(<<"Error: ", "Invalid session ID", " (expired)">>),
               Str(<<"Internal Server Error">>)}
LoginUrls == {Undef, Str(<<>>), Str(LoginUrl)}
AgentReply == <<"Your net worth is fine.">>
ResponseTexts == {Undef, Str(AgentReply)}
\* the summary document's sections (netWorth, ...) as one opaque value
NetWorthDoc == [t |-> "object"]
NetWorths == {Undef, NetWorthDoc}

\* a JSON object keeps only the properties the server sent
JsonObject(e, l, r, n) ==
    LET full == [error |-> e, login_url |-> l, response |-> r, netWorth |-> n]
        keys == {"json"} \cup {k \in DOMAIN full : full[k] # Undef}
    IN  [k \in keys |-> IF k = "json" THEN "object" ELSE full[k]]

Bodies ==
    {JsonObject(e, l, r, n) : e \in ErrorTexts, l \in LoginUrls,
                              r \in ResponseTexts, n \in NetWorths}
    \cup {[json |-> "null"], [json |-> "unparseable"]}

Responses == {[kind |-> "response", status |-> s, body |-> b] : s \in Statuses, b \in Bodies}
TransportFailure == [kind |-> "transport", message |-> TransportMessage]
Nets == Responses \cup {[kind |-> "transport", message |-> m] : m \in TransportMessages}

Response(status, body) == [kind |-> "response", status |-> status, body |-> body]

\* the network results the dashboard load and the chat are driven with: one per
\* path through callBackendApi and its callers
DashNets ==
    { Response(200, JsonObject(Undef, Undef, Undef, NetWorthDoc)),
      Response(200, [json |-> "null"]),
      Response(200, JsonObject(Undef, Undef, Undef, Undef)),
      Response(401, JsonObject(Str(AuthRequiredText), Str(LoginUrl), Undef, Undef)),
      Response(401, JsonObject(Str(InvalidSessionText), Undef, Undef, Undef)),
      Response(400, JsonObject(Str(InvalidSessionText), Undef, Undef, Undef)),
      Response(500, JsonObject(Str(<<"Internal Server Error">>), Undef, Undef, Undef)),
      Response(500, JsonObject(Undef, Undef, Undef, Undef)),
      TransportFailure }

ChatNets ==
    { Response(200, JsonObject(Undef, Undef, Str(AgentReply), Undef)),
      Response(401, JsonObject(Str(AuthRequiredText), Str(LoginUrl), Undef, Undef)),
      Response(401, JsonObject(Str(InvalidSessionText), Undef, Undef, Undef)),
      Response(400, JsonObject(Str(InvalidSessionText), Undef, Undef, Undef)),
      Response(500, JsonObject(Undef, Undef, Undef, Undef)),
      TransportFailure }

-----------------------------------------------------------------------------
(* Gateway harness: callBackendApi applied to every network result *)

GwIdle == [kind |-> "transport", message |-> <<>>]

GwInit ==
    /\ gwNet \in Nets
    /\ gwOut = <<>>

GwCall ==
    /\ gwOut = <<>>
    /\ gwOut' = <<callBackendApi(gwNet)>>
    /\ UNCHANGED gwNet

-----------------------------------------------------------------------------
(* App: page load and dashboard fetch *)

AppUrl == <<"app">>

\* template literal interpolation of a value
ToText(v) == IF v.t = "string" THEN v.s ELSE <<"undefined">>

\* the state of a freshly loaded page (useState initial values, lines 226-230 and 390-393)
FreshPage ==
    /\ mounted = FALSE
    /\ userId = FALSE
    /\ loadingFinancials = TRUE
    /\ financialData = <<>>
    /\ error = <<>>
    /\ dashReq = "none"
    /\ messages = <<>>
    /\ input = <<>>
    /\ isSending = FALSE
    /\ isListening = FALSE
    /\ recognitionRef = 0
    /\ captures = <<>>
    /\ inflight = <<>>
    /\ nChatReqs = 0

PageInit ==
    /\ userActed = TRUE
    /\ location = AppUrl
    /\ mcpRedirecting = FALSE
    /\ speechSupported \in BOOLEAN
    /\ FreshPage

\* !financialData (line 462): null, or a JSON null body
NoFinancialData == financialData = <<>> \/ financialData[1].json = "null"

\* what App renders (lines 445-482)
View ==
    IF location # AppUrl THEN "left"
    ELSE IF error # <<>> THEN "error"
    ELSE IF ~userId \/ loadingFinancials \/ NoFinancialData THEN "loading"
    ELSE IF Prop(financialData[1], "netWorth") = Undef THEN "crashed"
    ELSE "dashboard"

\* the mount effect without the removeItem of line 402
Mount_KeepsFlag ==
    /\ location = AppUrl
    /\ ~mounted
    /\ mounted' = TRUE
    /\ userId' = TRUE
    /\ UNCHANGED <<location, mcpRedirecting, speechSupported, loadingFinancials,
                   financialData, error, dashReq>>
    /\ UNCHANGED chatVars
    /\ UNCHANGED userActed
    /\ UNCHANGED harnessVars

\* lines 396-405: the mount effect
Mount ==
    /\ location = AppUrl
    /\ ~mounted
    /\ mounted' = TRUE
    /\ userId' = TRUE
    /\ mcpRedirecting' = IF mcpRedirecting THEN FALSE ELSE mcpRedirecting
    /\ UNCHANGED <<location, speechSupported, loadingFinancials, financialData,
                   error, dashReq>>
    /\ UNCHANGED chatVars
    /\ UNCHANGED userActed
    /\ UNCHANGED harnessVars

\* lines 408-418 and 440-443: the fetch effect, up to the await
FetchFinancialData ==
    /\ location = AppUrl
    /\ mounted /\ userId
    /\ dashReq = "none"
    /\ loadingFinancials' = TRUE
    /\ error' = <<>>
    /\ dashReq' = "inflight"
    /\ UNCHANGED <<location, mcpRedirecting, speechSupported, mounted, userId,
                   financialData>>
    /\ UNCHANGED chatVars
    /\ UNCHANGED userActed
    /\ UNCHANGED harnessVars

InvalidSessionError(err) ==
    <<"Session invalid. Please log in to Fi Money again. You might need to restart your backend server if it generated a new session ID. Error: ">>
    \o ToText(Prop(err, "message"))

LoadFailedError(err) ==
    <<"Failed to load financial data: ">>
    \o (IF Truthy(Prop(err, "message")) THEN Prop(err, "message").s
        ELSE <<"Unknown error">>)

\* FetchSettle without the login_required branch of lines 422-428
FetchSettle_NoRedirect(net) ==
    /\ location = AppUrl
    /\ dashReq = "inflight"
    /\ dashReq' = "settled"
    /\ LET out == callBackendApi(net) IN
       IF out.ok
       THEN /\ financialData' = <<out.value>>
            /\ UNCHANGED <<error, mcpRedirecting, location>>
       ELSE /\ error' = <<LoadFailedError(out.error)>>
            /\ UNCHANGED <<financialData, mcpRedirecting, location>>
    /\ loadingFinancials' = FALSE
    /\ UNCHANGED <<speechSupported, mounted, userId>>
    /\ UNCHANGED chatVars
    /\ userActed' = (callBackendApi(net).ok /\ userActed)
    /\ UNCHANGED harnessVars

\* lines 418-437: the request settles
FetchSettle(net) ==
    /\ location = AppUrl
    /\ dashReq = "inflight"
    /\ dashReq' = "settled"
    /\ LET out == callBackendApi(net) IN
       IF out.ok
       THEN /\ financialData' = <<out.value>>
            /\ UNCHANGED <<error, mcpRedirecting, location>>
       ELSE LET err == out.error IN
            IF Prop(err, "type") = Str(<<"login_required">>) /\ Truthy(Prop(err, "login_url"))
            THEN /\ mcpRedirecting' = TRUE
                 /\ location' = err.login_url.s
                 /\ UNCHANGED <<error, financialData>>
            ELSE IF Prop(err, "type") = Str(<<"invalid_session">>)
            THEN /\ error' = <<InvalidSessionError(err)>>
                 /\ UNCHANGED <<financialData, mcpRedirecting, location>>
            ELSE /\ error' = <<LoadFailedError(err)>>
                 /\ UNCHANGED <<financialData, mcpRedirecting, location>>
    /\ loadingFinancials' = FALSE
    /\ UNCHANGED <<speechSupported, mounted, userId>>
    /\ UNCHANGED chatVars
    /\ userActed' = (callBackendApi(net).ok /\ userActed)
    /\ UNCHANGED harnessVars

\* the state every page load starts from; localStorage survives the load
LoadPage ==
    /\ location' = AppUrl
    /\ mounted' = FALSE
    /\ userId' = FALSE
    /\ loadingFinancials' = TRUE
    /\ financialData' = <<>>
    /\ error' = <<>>
    /\ dashReq' = "none"
    /\ messages' = <<>>
    /\ input' = <<>>
    /\ isSending' = FALSE
    /\ isListening' = FALSE
    /\ recognitionRef' = 0
    /\ captures' = <<>>
    /\ inflight' = <<>>
    /\ nChatReqs' = 0
    /\ UNCHANGED <<mcpRedirecting, speechSupported>>
    /\ userActed' = TRUE
    /\ UNCHANGED harnessVars

\* line 452: the Reload Page button of the error view
Reload ==
    /\ View = "error"
    /\ LoadPage

\* the login page sends the browser back to the application
ReturnFromLogin ==
    /\ location # AppUrl
    /\ LoadPage


-----------------------------------------------------------------------------
(* ChatInterface *)

MaxMessages == 4    \* length the message log is followed to
MaxCaptures == 1    \* SpeechRecognition objects created per page load

Question == <<"How's my net worth?">>
TypedInputs == {<<>>, <<" ">>, Question}
Transcripts == {<<"what is my credit score">>}
SpeechErrors == {<<"no-speech">>}

\* ChatInterface is rendered by the dashboard view only (line 640)
ChatMounted == View = "dashboard"

Message(sender, text) == [sender |-> sender, text |-> text]

RemoveAt(seq, i) == SubSeq(seq, 1, i - 1) \o SubSeq(seq, i + 1, Len(seq))

\* line 352: the input field is disabled while sending or listening (line 358)
TypeInput(text) ==
    /\ ChatMounted
    /\ ~isSending /\ ~isListening
    /\ text # input
    /\ input' = text
    /\ UNCHANGED <<messages, isSending, isListening, recognitionRef, captures,
                   inflight, nChatReqs>>
    /\ UNCHANGED pageVars
    /\ UNCHANGED userActed
    /\ UNCHANGED harnessVars

\* handleSendMessage with setMessages([userMessage]) in place of the updater of line 245
handleSendMessage_ReplacesLog(closureInput) ==
    IF Trim(closureInput) = <<>>
    THEN UNCHANGED <<messages, input, isSending, inflight, nChatReqs>>
    ELSE /\ messages' = <<Message("user", Str(closureInput))>>
         /\ input' = <<>>
         /\ isSending' = TRUE
         /\ inflight' = Append(inflight, [message |-> closureInput])
         /\ nChatReqs' = nChatReqs + 1

\* lines 241-250: handleSendMessage up to the await, run by a render whose
\* input was closureInput; the caller leaves isListening, recognitionRef and
\* captures to itself
handleSendMessage(closureInput) ==
    IF Trim(closureInput) = <<>>
    THEN UNCHANGED <<messages, input, isSending, inflight, nChatReqs>>
    ELSE /\ messages' = Append(messages, Message("user", Str(closureInput)))
         /\ input' = <<>>
         /\ isSending' = TRUE
         /\ inflight' = Append(inflight, [message |-> closureInput])
         /\ nChatReqs' = nChatReqs + 1

\* the model follows the message log up to MaxMessages entries
LogOpen == Len(messages) < MaxMessages
SendAllowed(closureInput) == Trim(closureInput) # <<>> => LogOpen

\* lines 372-380: the send button
ClickSend ==
    /\ ChatMounted
    /\ ~(isSending \/ Trim(input) = <<>> \/ isListening)
    /\ SendAllowed(input)
    /\ handleSendMessage(input)
    /\ UNCHANGED <<isListening, recognitionRef, captures>>
    /\ UNCHANGED pageVars
    /\ userActed' = TRUE
    /\ UNCHANGED harnessVars

\* lines 353-358: Enter in the input field
PressEnter ==
    /\ ChatMounted
    /\ ~(isSending \/ isListening)
    /\ SendAllowed(input)
    /\ handleSendMessage(input)
    /\ UNCHANGED <<isListening, recognitionRef, captures>>
    /\ UNCHANGED pageVars
    /\ userActed' = (Trim(input) # <<>> \/ userActed)
    /\ UNCHANGED harnessVars

\* lines 255-264: the text shown for a failed send
DisplayMessage(err) ==
    IF Prop(err, "type") = Str(<<"login_required">>) /\ Truthy(Prop(err, "login_url"))
    THEN <<"Authentication required with Fi Money. Please log in using this link: ">>
         \o err.login_url.s
    ELSE IF Prop(err, "type") = Str(<<"invalid_session">>)
    THEN <<"Session invalid. Please refresh the page and log in to Fi Money again. Error: ">>
         \o ToText(Prop(err, "message"))
    ELSE IF Truthy(Prop(err, "message"))
    THEN <<"Error: ">> \o err.message.s
    ELSE <<"Oops! Something went wrong. Please try again.">>

\* the sender handleSendMessage gives the message of a failed send (line 265)
FailureSender == "ai"

\* lines 250-252 and 253-265: the message one settled request appends
SettleMessage(net) ==
    LET out == callBackendApi(net)
        read == IF out.ok THEN ReadProp(out.value, "response") ELSE out
    IN  IF read.ok
        THEN Message("ai", read.value)
        ELSE Message(FailureSender, Str(DisplayMessage(read.error)))

\* the try block of lines 250-252 threw: the request failed, or reading its answer did
SettleFailed(net) ==
    LET out == callBackendApi(net) IN
    ~out.ok \/ ~ReadProp(out.value, "response").ok

\* lines 250-268: the i-th outstanding /chat request settles
SettleChat(i, net) ==
    /\ ChatMounted
    /\ i \in 1..Len(inflight)
    /\ LogOpen
    /\ messages' = Append(messages, SettleMessage(net))
    /\ isSending' = FALSE
    /\ inflight' = RemoveAt(inflight, i)
    /\ UNCHANGED <<input, isListening, recognitionRef, captures, nChatReqs>>
    /\ UNCHANGED pageVars
    /\ userActed' = (~SettleFailed(net) /\ userActed)
    /\ UNCHANGED harnessVars

-----------------------------------------------------------------------------
(* Speech capture *)

\* a SpeechRecognition object with the closure its handlers were created in
NewCapture(closureInput) ==
    [phase |-> "starting",      \* "starting" | "listening" | "ended"
     closureInput |-> closureInput, \* input of the render startListening ran in
     errored |-> FALSE,
     transcript |-> Undef,      \* the transcript onresult delivered
     sent |-> Undef]            \* the message of the request onend issued

\* lines 271-308: the microphone button while not listening (lines 360-369)
startListening ==
    /\ ChatMounted
    /\ ~isSending /\ ~isListening
    /\ IF ~speechSupported
       THEN UNCHANGED <<captures, recognitionRef>>
       ELSE /\ Len(captures) < MaxCaptures
            /\ captures' = Append(captures, NewCapture(input))
            /\ recognitionRef' = Len(captures) + 1
    /\ UNCHANGED <<messages, input, isSending, isListening, inflight, nChatReqs>>
    /\ UNCHANGED pageVars
    /\ userActed' = (speechSupported \/ userActed)
    /\ UNCHANGED harnessVars

\* lines 310-315: the microphone button while listening
stopListening ==
    /\ ChatMounted
    /\ ~isSending /\ isListening
    /\ IF recognitionRef # 0
       THEN isListening' = FALSE
       ELSE UNCHANGED isListening
    /\ UNCHANGED <<messages, input, isSending, recognitionRef, captures, inflight,
                   nChatReqs>>
    /\ UNCHANGED pageVars
    /\ userActed' = TRUE
    /\ UNCHANGED harnessVars

\* lines 283-286
OnStart(c) ==
    /\ ChatMounted
    /\ c \in 1..Len(captures)
    /\ captures[c].phase = "starting" /\ ~captures[c].errored
    /\ LogOpen
    /\ captures' = [captures EXCEPT ![c].phase = "listening"]
    /\ isListening' = TRUE
    /\ messages' = Append(messages, Message("system", Str(<<"Listening...">>)))
    /\ UNCHANGED <<input, isSending, recognitionRef, inflight, nChatReqs>>
    /\ UNCHANGED pageVars
    /\ UNCHANGED userActed
    /\ UNCHANGED harnessVars

\* lines 288-292
OnResult(c, transcript) ==
    /\ ChatMounted
    /\ c \in 1..Len(captures)
    /\ captures[c].phase = "listening" /\ ~captures[c].errored
    /\ captures[c].transcript = Undef
    /\ LogOpen
    /\ captures' = [captures EXCEPT ![c].transcript = Str(transcript)]
    /\ input' = transcript
    /\ messages' = Append(messages,
                     Message("system", Str(<<"You said: \"">> \o transcript \o <<"\"">>)))
    /\ UNCHANGED <<isSending, isListening, recognitionRef, inflight, nChatReqs>>
    /\ UNCHANGED pageVars
    /\ UNCHANGED userActed
    /\ UNCHANGED harnessVars

\* lines 294-298
OnError(c, code) ==
    /\ ChatMounted
    /\ c \in 1..Len(captures)
    /\ captures[c].phase # "ended" /\ ~captures[c].errored
    /\ LogOpen
    /\ captures' = [captures EXCEPT ![c].errored = TRUE]
    /\ messages' = Append(messages,
                     Message("system", Str(<<"Speech recognition error: ">> \o code
                                           \o <<". Please try again.">>)))
    /\ isListening' = FALSE
    /\ UNCHANGED <<input, isSending, recognitionRef, inflight, nChatReqs>>
    /\ UNCHANGED pageVars
    /\ UNCHANGED userActed
    /\ UNCHANGED harnessVars

\* lines 300-305: input and handleSendMessage are those of the render
\* startListening ran in
OnEnd(c) ==
    /\ ChatMounted
    /\ c \in 1..Len(captures)
    /\ captures[c].phase = "listening" \/ (captures[c].phase = "starting" /\ captures[c].errored)
    /\ SendAllowed(captures[c].closureInput)
    /\ isListening' = FALSE
    /\ handleSendMessage(captures[c].closureInput)
    /\ captures' = [captures EXCEPT
                      ![c].phase = "ended",
                      ![c].sent = IF Trim(captures[c].closureInput) = <<>> THEN Undef
                                  ELSE Str(captures[c].closureInput)]
    /\ UNCHANGED recognitionRef
    /\ UNCHANGED pageVars
    /\ UNCHANGED userActed
    /\ UNCHANGED harnessVars

-----------------------------------------------------------------------------
(* Specifications *)

Init ==
    /\ PageInit
    /\ gwNet = GwIdle
    /\ gwOut = <<>>
    /\ fmtValue = FmtIdle
    /\ fmtOut = <<>>

Next ==
    \/ Mount
    \/ FetchFinancialData
    \/ \E net \in DashNets : FetchSettle(net)
    \/ Reload
    \/ ReturnFromLogin
    \/ \E text \in TypedInputs : TypeInput(text)
    \/ ClickSend
    \/ PressEnter
    \/ \E i \in 1..MaxMessages, net \in ChatNets : SettleChat(i, net)
    \/ startListening
    \/ stopListening
    \/ \E c \in 1..MaxCaptures : OnStart(c)
    \/ \E c \in 1..MaxCaptures, t \in Transcripts : OnResult(c, t)
    \/ \E c \in 1..MaxCaptures, e \in SpeechErrors : OnError(c, e)
    \/ \E c \in 1..MaxCaptures : OnEnd(c)

Spec == Init /\ [][Next]_vars

GatewayInit ==
    /\ GwInit
    /\ PageInit
    /\ speechSupported = TRUE
    /\ fmtValue = FmtIdle
    /\ fmtOut = <<>>

GatewayNext ==
    /\ GwCall
    /\ UNCHANGED userActed
    /\ UNCHANGED pageVars
    /\ UNCHANGED chatVars
    /\ UNCHANGED fmtVars

GatewaySpec == GatewayInit /\ [][GatewayNext]_vars

FormatInit ==
    /\ FmtInit
    /\ PageInit
    /\ speechSupported = TRUE
    /\ gwNet = GwIdle
    /\ gwOut = <<>>

FormatNext ==
    /\ FmtCall
    /\ UNCHANGED userActed
    /\ UNCHANGED pageVars
    /\ UNCHANGED chatVars
    /\ UNCHANGED gwVars

FormatSpec == FormatInit /\ [][FormatNext]_vars

-----------------------------------------------------------------------------
(* Properties of callBackendApi, checked under GatewaySpec *)

Settled == gwOut # <<>>
Outcome == gwOut[1]
IsHttpResponse == gwNet.kind = "response"
HasJsonObject == IsHttpResponse /\ gwNet.body.json = "object"
ErrorText == Prop(gwNet.body, "error")

\* the response is the AuthRequired case of lines 69-74
AuthRequiredCase ==
    /\ HasJsonObject
    /\ gwNet.status = 401
    /\ ErrorText = Str(AuthRequiredText)
    /\ Truthy(Prop(gwNet.body, "login_url"))

\* the response's error text contains "Invalid session ID"
InvalidSessionCase ==
    /\ HasJsonObject
    /\ ErrorText.t = "string"
    /\ Includes(ErrorText.s, InvalidSessionText)

\* C1: every HTTP error response (401 included) whose JSON body has an error
\* text containing "Invalid session ID" makes callBackendApi fail with
\* {type: 'invalid_session', message: <that text>}, whatever the status.
C1_InvalidSessionWhateverStatus ==
    (Settled /\ IsHttpResponse /\ ~ResponseOk(gwNet) /\ InvalidSessionCase)
        => Outcome = Thrown(InvalidSession(ErrorText))

\* C2: every 401 response with error "Authentication required" and a non-empty
\* login_url X makes callBackendApi fail with {type: 'login_required',
\* login_url: X}, and so with neither 'invalid_session' nor a generic Error.
C2_AuthRequiredCarriesLoginUrl ==
    (Settled /\ AuthRequiredCase)
        => /\ Outcome = Thrown(LoginRequired(gwNet.body.login_url))
           /\ Prop(Outcome.error, "type") # Str(<<"invalid_session">>)
           /\ "message" \notin DOMAIN Outcome.error

C2_Witness ==
    /\ Settled /\ AuthRequiredCase
    /\ Outcome.error.login_url = Str(LoginUrl)

\* the failure tells its status code: as a status property, or named in its message
CarriesStatus(out, status) ==
    /\ ~out.ok
    /\ \/ "status" \in DOMAIN out.error /\ out.error.status = status
       \/ /\ Prop(out.error, "message").t = "string"
          /\ Includes(out.error.message.s, <<ToString(status)>>)

\* C3: every non-2xx response that is neither the AuthRequired case nor an
\* "Invalid session ID" error makes callBackendApi fail with an error that
\* carries the response's status code and whose message is the server's error
\* text when there is one, and otherwise the fallback naming the status code.
C3_HttpErrorStatusAndMessage ==
    (Settled /\ HasJsonObject /\ ~ResponseOk(gwNet)
        /\ ~AuthRequiredCase /\ ~InvalidSessionCase)
        => /\ ~Outcome.ok
           /\ Prop(Outcome.error, "message") =
                 (IF Truthy(ErrorText) THEN ErrorText
                  ELSE Str(HttpFallback(gwNet.status)))
           /\ CarriesStatus(Outcome, gwNet.status)

C5_SuccessReturnsBodyUnchanged ==
    (Settled /\ IsHttpResponse /\ ResponseOk(gwNet) /\ gwNet.body.json # "unparseable")
        => Outcome = Returned(gwNet.body)

C5_Witness ==
    /\ Settled /\ HasJsonObject /\ gwNet.status = 201
    /\ InvalidSessionCase
    /\ Truthy(Prop(gwNet.body, "login_url"))
    /\ Outcome.ok /\ Outcome.value = gwNet.body

-----------------------------------------------------------------------------
(* Properties of the chat and of the dashboard load, checked under Spec *)

\* a step that issues a /chat request
IssuesRequest == nChatReqs' = nChatReqs + 1

\* a step in which the i-th outstanding request settles on network result net
Settles(i, net) == SettleChat(i, net)

\* a step appends exactly one message, of the given sender
AppendsOne(sender) ==
    /\ Len(messages') = Len(messages) + 1
    /\ SubSeq(messages', 1, Len(messages)) = messages
    /\ messages'[Len(messages')].sender = sender

\* C6 as claimed: a send with non-blank input appends one 'user' message in the
\* step that issues the request; the step that settles it appends exactly one
\* message, from the agent on success and from the system (not the agent) on
\* failure; the message log never gets shorter.
C6_FailureMessageFromSystem ==
    [][ /\ Len(messages') >= Len(messages)
        /\ IssuesRequest => AppendsOne("user")
        /\ \A i \in 1..MaxMessages, net \in ChatNets :
              Settles(i, net) =>
                  IF callBackendApi(net).ok THEN AppendsOne("ai")
                  ELSE AppendsOne("system")
      ]_vars

\* C6 as amended: a send with non-blank input appends one 'user' message,
\* carrying the text sent, in the step that issues the request; the step that
\* settles it appends exactly one message, and that message has the agent
\* sender 'ai' on success and on every failure alike; the message log never
\* gets shorter.
C6_SendThenOneAgentMessage ==
    [][ /\ Len(messages') >= Len(messages)
        /\ IssuesRequest =>
              /\ AppendsOne("user")
              /\ Len(inflight') = Len(inflight) + 1
              /\ Trim(inflight'[Len(inflight')].message) # <<>>
              /\ messages'[Len(messages')].text = Str(inflight'[Len(inflight')].message)
        /\ \A i \in 1..MaxMessages, net \in ChatNets :
              Settles(i, net) =>
                  /\ AppendsOne("ai")
                  /\ Len(inflight') = Len(inflight) - 1
      ]_vars

\* a send of the typed question has failed on the transport and its message is shown
C6_Witness ==
    /\ Len(messages) = 2
    /\ inflight = <<>> /\ nChatReqs = 1
    /\ messages[1] = Message("user", Str(Question))
    /\ messages[2] = Message("ai", Str(<<"Error: ">> \o TransportMessage))

\* requests issued and not yet settled
Outstanding == Len(inflight) + (IF dashReq = "inflight" THEN 1 ELSE 0)

\* C7: at most one backend request is outstanding at any time, over every
\* interleaving of the dashboard load, the sends and the speech callbacks.
C7_AtMostOneOutstanding == Outstanding <= 1

\* a capture is active from start() until its onend
CaptureActive == \E c \in 1..Len(captures) : captures[c].phase # "ended"
CaptureStarting == \E c \in 1..Len(captures) :
                      captures[c].phase = "starting" /\ ~captures[c].errored

\* C8: no speech capture is active while a /chat request is in flight, and the
\* user can start no send between the click that starts a capture and its onstart.
C8_CaptureExcludesSending ==
    /\ CaptureActive => inflight = <<>>
    /\ CaptureStarting => ~ENABLED ClickSend

\* C9: a capture that delivered a transcript and ended has issued one /chat
\* request whose message is that transcript, whatever the input field held when
\* the capture was started; a capture that ended without a transcript has
\* issued none.
C9_CaptureSendsItsTranscript ==
    \A c \in 1..Len(captures) :
        captures[c].phase = "ended" => captures[c].sent = captures[c].transcript

\* callBackendApi fails on net with AuthRequired(url)
AuthRequiredOutcome(net, url) == callBackendApi(net) = Thrown(LoginRequired(Str(url)))

\* C10: when /getFinancialSummary fails with AuthRequired(loginUrl) the browser
\* location becomes loginUrl and no error text is set; when /chat fails with
\* AuthRequired(loginUrl) exactly one message, containing loginUrl, is appended
\* and the location and the redirect flag stay as they were.
C10_AuthRequiredAsymmetry ==
    [][ /\ \A net \in DashNets :
              (FetchSettle(net) /\ AuthRequiredOutcome(net, LoginUrl)) =>
                  /\ location' = LoginUrl
                  /\ error' = <<>>
        /\ \A i \in 1..MaxMessages, net \in ChatNets :
              (Settles(i, net) /\ AuthRequiredOutcome(net, LoginUrl)) =>
                  /\ Len(messages') = Len(messages) + 1
                  /\ SubSeq(messages', 1, Len(messages)) = messages
                  /\ Includes(messages'[Len(messages')].text.s, LoginUrl)
                  /\ location' = location
                  /\ mcpRedirecting' = mcpRedirecting
      ]_vars

\* the dashboard load was answered with AuthRequired: the browser is on the login page
C10_WitnessRedirect ==
    /\ location = LoginUrl
    /\ error = <<>>
    /\ dashReq = "settled"

\* a send was answered with AuthRequired: the link is in the log, the page is still the application
C10_Witness ==
    /\ Len(messages) = 2
    /\ inflight = <<>> /\ nChatReqs = 1
    /\ Includes(messages[2].text.s, LoginUrl)
    /\ location = AppUrl
    /\ ~mcpRedirecting

-----------------------------------------------------------------------------
(* The persisted redirect flag *)

\* C11: the 'mcpRedirecting' flag is set only by the step that redirects the
\* browser to the login URL on the dashboard-load path, every mount effect
\* leaves it absent, and so it is present only between a redirect and the
\* mount effect of the following page load.
C11_FlagOnlyBetweenRedirectAndLoad ==
    /\ [](mcpRedirecting => (location = LoginUrl \/ ~mounted))
    /\ [][ (~mcpRedirecting /\ mcpRedirecting') =>
              /\ dashReq = "inflight" /\ dashReq' = "settled"
              /\ location = AppUrl /\ location' = LoginUrl ]_vars
    /\ [][ (~mounted /\ mounted') => ~mcpRedirecting' ]_vars

\* the page has been loaded again after a redirect and its mount effect has not run yet
C11_Witness ==
    /\ mcpRedirecting
    /\ location = AppUrl
    /\ ~mounted

-----------------------------------------------------------------------------
(* The sending flag *)

\* C14: over any sequence of sends, automatic sends and responses, isSending
\* is true exactly while a /chat request is in flight, and it is false again
\* once a send has had its outcome.
C14_SendingIffRequestInFlight == isSending <=> inflight # <<>>

-----------------------------------------------------------------------------
(* Outcomes of the dashboard load *)

LoadSucceeded == ~NoFinancialData /\ error = <<>> /\ View = "dashboard"
LoadFailed    == error # <<>> /\ financialData = <<>> /\ View = "error"
LoadRedirected ==
    /\ location = LoginUrl /\ mcpRedirecting
    /\ error = <<>> /\ financialData = <<>>

\* C15: once the /getFinancialSummary request has settled, loadingFinancials
\* is false and exactly one of these holds: financialData is set, error is
\* null and the dashboard view is shown; error is set, financialData is null
\* and the error view is shown; or a redirect was initiated with error and
\* financialData both null.  The dashboard view, and the chat panel with it,
\* is shown only when financialData is set.
C15_LoadOutcomesExclusiveAndComplete ==
    /\ dashReq = "settled" =>
          /\ ~loadingFinancials
          /\ Cardinality({o \in {"success", "failure", "redirect"} :
                 \/ o = "success" /\ LoadSucceeded
                 \/ o = "failure" /\ LoadFailed
                 \/ o = "redirect" /\ LoadRedirected}) = 1
    /\ ChatMounted => ~NoFinancialData

-----------------------------------------------------------------------------
(* Properties of formatCurrency, checked under FormatSpec *)

Formatted == fmtOut # <<>>
FormatOutcome == fmtOut[1]

\* the amount is there and has a units property
HasUnits == fmtValue.t = "object" /\ "units" \in DOMAIN fmtValue

\* the units are an integer written as a string: an optional sign, then digits only
NumericUnits ==
    /\ HasUnits
    /\ fmtValue.units.t = "string"
    /\ LET body == Trim(fmtValue.units.s)
           rest == IF body # <<>> /\ Head(body) = "-" THEN Tail(body) ELSE body
       IN  rest # <<>> /\ \A i \in 1..Len(rest) : rest[i] \in Digits

\* the currency code is one the formatter accepts, or is left to the default
CurrencyAccepted ==
    fmtValue.t = "object" =>
        (Truthy(Prop(fmtValue, "currencyCode")) => WellFormedCurrency(fmtValue.currencyCode.s))

\* units + nanos / 1e9 of an amount with numeric units, a missing nanos counting as 0
TotalText ==
    LET u == ParseInt(fmtValue.units)
        n == IF "nanos" \in DOMAIN fmtValue THEN fmtValue.nanos.n ELSE 0
        c == IF Truthy(Prop(fmtValue, "currencyCode")) THEN fmtValue.currencyCode.s
             ELSE DefaultCurrency
    IN  FormatNumber(c, RoundedHundredths(IF "neg" \in DOMAIN u THEN 0 - u.n ELSE u.n, n))

\* C13: formatCurrency renders 'N/A' for every amount that is absent, has no
\* units or has units that are not numeric; for every amount with numeric
\* units it formats units + nanos / 1e9; and it does not throw when nanos is
\* missing, which counts as 0.
C13_NotAvailableOrTotal ==
    (Formatted /\ CurrencyAccepted) =>
        IF NumericUnits
        THEN FormatOutcome = Returned(Str(TotalText))
        ELSE FormatOutcome = Returned(Str(NotAvailable))

-----------------------------------------------------------------------------
(* Requests are not repeated *)

\* a step that issues the /getFinancialSummary request
IssuesSummaryRequest == dashReq # "inflight" /\ dashReq' = "inflight"

\* a step in which the user sends what the input field holds
UserSends == ClickSend \/ (PressEnter /\ Trim(input) # <<>>)

\* C12: no request is retried automatically: a page load issues exactly one
\* /getFinancialSummary request, once the session id exists, a send issues
\* exactly one /chat request, and after a failed request no request is issued
\* until the user acts again.
C12_NoAutomaticRetry ==
    /\ [][IssuesSummaryRequest => (dashReq = "none" /\ userId)]_vars
    /\ [][ /\ UserSends => nChatReqs' = nChatReqs + 1
           /\ nChatReqs' <= nChatReqs + 1 ]_vars
    /\ [][(IssuesRequest \/ IssuesSummaryRequest) => userActed']_vars

====
